---- MODULE Spec2Model ----
(***************************************************************************)
(* A model of mk10646.py: the line-driven BDF parser (BDFParserBase,       *)
(* BDFGlyphParser, BDFFileParser), the bitmap transcoder (shrink_bits,     *)
(* expand_bits, BDFGlyphParser.adjust), and main's read / merge / write    *)
(* pipeline.  Python strings are TLA+ strings, taken apart with Len and    *)
(* SubSeq; None is the empty tuple and a set field x is the 1-tuple <<x>>. *)
(* A raised exception is recorded by its Python class name in exc.         *)
(***************************************************************************)
EXTENDS Integers, Sequences, FiniteSets, TLC

VARIABLES
    pc,         \* where the run is: see the specifications below
    args,       \* main: the input files not yet read (see FilesAt)
    parser,     \* main: the BDFFileParser of the file being / last read
    glyphs,     \* main: the candidate dict, code point -> list of glyphs
    CHARWIDTH,  \* the width table, code point -> category
    ki,         \* main: number of code points of sorted(glyphs) already merged
    out,        \* lines written to sys.stdout
    err,        \* warnings written to sys.stderr
    exc,        \* "" or the class of the exception that ended the run
    glyph,      \* transcoder runs: the glyph adjust() is applied to
    bits,       \* bit-function runs: the argument byte string
    res,        \* bit-function runs: the returned byte string
    fed,        \* the lines fed so far (main: the lines of the files read)
    target      \* transcoder runs: None, or Some(wide) of the last adjust(wide)

vars == <<pc, args, parser, glyphs, CHARWIDTH, ki, out, err, exc, glyph, bits, res, fed, target>>

None == <<>>
Some(x) == <<x>>

\* a local name: Body with its parameter bound to the value v
Let(v, Body(_)) == Body(v)

-----------------------------------------------------------------------------
(* Python str methods.                                                     *)

Char(s, i) == SubSeq(s, i, i)

RECURSIVE Find(_, _, _)
\* index of the first c in s at or after i, 0 when there is none
Find(s, c, i) ==
    IF i > Len(s) THEN 0
    ELSE IF Char(s, i) = c THEN i
    ELSE Find(s, c, i + 1)

\* s.partition(c): <<head, rest>> (the separator itself is never used)
Partition(s, c) ==
    Let(Find(s, c, 1), LAMBDA i :
        IF i = 0 THEN <<s, "">>
        ELSE <<SubSeq(s, 1, i - 1), SubSeq(s, i + 1, Len(s))>>)

UpperCase == "ABCDEFGHIJKLMNOPQRSTUVWXYZ"
LowerCase == "abcdefghijklmnopqrstuvwxyz"

Letters == 1..26

\* the lower-case letter of each upper-case letter, and the reverse
LowerOf == [c \in {Char(UpperCase, i) : i \in Letters} |->
               Char(LowerCase, Find(UpperCase, c, 1))]
UpperOf == [c \in {Char(LowerCase, i) : i \in Letters} |->
               Char(UpperCase, Find(LowerCase, c, 1))]

LowerChar(c) == IF c \in DOMAIN LowerOf THEN LowerOf[c] ELSE c

UpperChar(c) == IF c \in DOMAIN UpperOf THEN UpperOf[c] ELSE c

RECURSIVE LowerFrom(_, _)
LowerFrom(s, i) ==
    IF i > Len(s) THEN "" ELSE LowerChar(Char(s, i)) \o LowerFrom(s, i + 1)

\* the words of a BDF file: record names, in either case
Words ==
    {"startfont", "endfont", "comment", "font", "size", "fontboundingbox",
     "startproperties", "endproperties", "chars", "startchar", "endchar", "encoding",
     "swidth", "dwidth", "bbx", "bitmap", "font_ascent", "font_descent", "pixel_size",
     "point_size", "resolution_x", "resolution_y", "average_width", "default_char",
     "copyright", "fontname_registry", "foundry", "family_name", "weight_name", "slant",
     "setwidth_name", "add_style_name", "spacing", "charset_registry", "charset_encoding",
     "STARTFONT", "ENDFONT", "COMMENT", "FONT", "SIZE", "FONTBOUNDINGBOX",
     "STARTPROPERTIES", "ENDPROPERTIES", "CHARS", "STARTCHAR", "ENDCHAR", "ENCODING",
     "SWIDTH", "DWIDTH", "BBX", "BITMAP", "FONT_ASCENT", "FONT_DESCENT", "PIXEL_SIZE",
     "POINT_SIZE", "RESOLUTION_X", "RESOLUTION_Y", "AVERAGE_WIDTH", "DEFAULT_CHAR",
     "COPYRIGHT", "FONTNAME_REGISTRY", "FOUNDRY", "FAMILY_NAME", "WEIGHT_NAME", "SLANT",
     "SETWIDTH_NAME", "ADD_STYLE_NAME", "SPACING", "CHARSET_REGISTRY", "CHARSET_ENCODING"}

\* s.lower() of each of these words, tabulated
LowerWords == [s \in Words |-> LowerFrom(s, 1)]

\* s.lower()
Lower(s) == IF s \in Words THEN LowerWords[s] ELSE LowerFrom(s, 1)

RECURSIVE UpperFrom(_, _)
UpperFrom(s, i) ==
    IF i > Len(s) THEN "" ELSE UpperChar(Char(s, i)) \o UpperFrom(s, i + 1)

\* s.upper() of each of these words, tabulated
UpperWords == [s \in Words |-> UpperFrom(s, 1)]

\* s.upper()
Upper(s) == IF s \in Words THEN UpperWords[s] ELSE UpperFrom(s, 1)

RECURSIVE LStrip(_)
LStrip(s) == IF s # "" /\ Char(s, 1) = " " THEN LStrip(SubSeq(s, 2, Len(s))) ELSE s

RECURSIVE RStrip(_)
RStrip(s) ==
    IF s # "" /\ Char(s, Len(s)) = " " THEN RStrip(SubSeq(s, 1, Len(s) - 1)) ELSE s

Strip(s) == LStrip(RStrip(s))

RECURSIVE Split(_)
\* s.split(' ')
Split(s) ==
    Let(Find(s, " ", 1), LAMBDA i :
        IF i = 0 THEN <<s>>
        ELSE <<SubSeq(s, 1, i - 1)>> \o Split(SubSeq(s, i + 1, Len(s))))

StartsWith(s, c) == Len(s) >= 1 /\ Char(s, 1) = c
EndsWith(s, c) == Len(s) >= 1 /\ Char(s, Len(s)) = c

Digits == "0123456789"

RECURSIVE AllDigits(_)
AllDigits(s) ==
    s = "" \/ (Find(Digits, Char(s, 1), 1) # 0 /\ AllDigits(SubSeq(s, 2, Len(s))))

RECURSIVE DigitsValue(_)
DigitsValue(s) ==
    IF s = "" THEN 0
    ELSE 10 * DigitsValue(SubSeq(s, 1, Len(s) - 1)) + (Find(Digits, Char(s, Len(s)), 1) - 1)

\* int(s): [ok, v]; not ok is ValueError
ParseInt(s0) ==
    Let(Strip(s0), LAMBDA s :
    Let(IF s # "" /\ Char(s, 1) \in {"-", "+"} THEN SubSeq(s, 2, Len(s)) ELSE s, LAMBDA d :
        IF d = "" \/ ~AllDigits(d) THEN [ok |-> FALSE, v |-> 0]
        ELSE [ok |-> TRUE,
              v  |-> IF Char(s, 1) = "-" THEN 0 - DigitsValue(d) ELSE DigitsValue(d)]))

RECURSIVE NatStr(_)
NatStr(n) ==
    IF n < 10 THEN Char(Digits, n + 1)
    ELSE NatStr(n \div 10) \o Char(Digits, (n % 10) + 1)

\* str(n), '%r' % n for an int
Str(n) == IF n < 0 THEN "-" \o NatStr(0 - n) ELSE NatStr(n)

RECURSIVE MapInt(_)
\* map(int, xs): [ok, v]
MapInt(xs) ==
    IF xs = <<>> THEN [ok |-> TRUE, v |-> <<>>]
    ELSE Let(ParseInt(Head(xs)), LAMBDA h :
         Let(MapInt(Tail(xs)), LAMBDA t :
             IF h.ok /\ t.ok THEN [ok |-> TRUE, v |-> <<h.v>> \o t.v]
             ELSE [ok |-> FALSE, v |-> <<>>]))

RECURSIVE Join(_, _)
\* sep.join(xs)
Join(xs, sep) ==
    IF xs = <<>> THEN ""
    ELSE IF Len(xs) = 1 THEN xs[1]
    ELSE xs[1] \o sep \o Join(Tail(xs), sep)

RECURSIVE MapStr(_)
MapStr(ns) == IF ns = <<>> THEN <<>> ELSE <<Str(Head(ns))>> \o MapStr(Tail(ns))

-----------------------------------------------------------------------------
(* Byte strings, the 'hex' codec, and the bit transforms.                  *)

HexDigits == "0123456789abcdef"

HexVal(c) == Find(HexDigits, LowerChar(c), 1) - 1

RECURSIVE HexDecodeFrom(_, _)
HexDecodeFrom(s, i) ==
    IF i > Len(s) THEN <<>>
    ELSE <<16 * HexVal(Char(s, i)) + HexVal(Char(s, i + 1))>> \o HexDecodeFrom(s, i + 2)

RECURSIVE AllHex(_)
AllHex(s) == s = "" \/ (HexVal(Char(s, 1)) >= 0 /\ AllHex(SubSeq(s, 2, Len(s))))

\* s.decode('hex'): [ok, v]; not ok is TypeError (odd length, non-hex digit)
HexDecode(s) ==
    IF Len(s) % 2 = 1 \/ ~AllHex(s) THEN [ok |-> FALSE, v |-> <<>>]
    ELSE [ok |-> TRUE, v |-> HexDecodeFrom(s, 1)]

RECURSIVE HexEncode(_)
\* bytes.encode('hex')
HexEncode(bs) ==
    IF bs = <<>> THEN ""
    ELSE Char(HexDigits, (Head(bs) \div 16) + 1) \o Char(HexDigits, (Head(bs) % 16) + 1)
         \o HexEncode(Tail(bs))

\* b & m # 0, for a mask m of the bits lo .. hi of a byte
AnyBit(b, lo, hi) == (b \div (2 ^ lo)) % (2 ^ (hi - lo + 1)) # 0

\* the loop body with each test on the high bit of the pair only
ShrinkByteHigh(b) ==
      (IF AnyBit(b, 7, 7) THEN 8 ELSE 0)
    + (IF AnyBit(b, 5, 5) THEN 4 ELSE 0)
    + (IF AnyBit(b, 3, 3) THEN 2 ELSE 0)
    + (IF AnyBit(b, 1, 1) THEN 1 ELSE 0)

\* one pass of the loop body of shrink_bits, lines 50-58: the nibble x1 of byte b
ShrinkByte(b) ==
      (IF AnyBit(b, 6, 7) THEN 8 ELSE 0)
    + (IF AnyBit(b, 4, 5) THEN 4 ELSE 0)
    + (IF AnyBit(b, 2, 3) THEN 2 ELSE 0)
    + (IF AnyBit(b, 0, 1) THEN 1 ELSE 0)

RECURSIVE ShrinkLoop(_, _, _)
\* the for loop of shrink_bits over the bytes left, with a and x0 as they stand
ShrinkLoop(bs, a, x0) ==
    IF bs = <<>> THEN
        IF x0 # None THEN a \o <<x0[1] * 16>> ELSE a
    ELSE Let(ShrinkByte(Head(bs)), LAMBDA x1 :
             IF x0 # None THEN ShrinkLoop(Tail(bs), a \o <<x0[1] * 16 + x1>>, None)
             ELSE ShrinkLoop(Tail(bs), a, Some(x1)))

shrink_bits(bs) == ShrinkLoop(bs, <<>>, None)

\* the body of the inner loop of expand_bits, lines 74-83, for byte b and the
\* loop variable i (b >> 4, then b & 0xf): the tests read b, not i
ExpandNibble(b, i) ==
      (IF AnyBit(b, 3, 3) THEN 192 ELSE 0)
    + (IF AnyBit(b, 2, 2) THEN 48 ELSE 0)
    + (IF AnyBit(b, 1, 1) THEN 12 ELSE 0)
    + (IF AnyBit(b, 0, 0) THEN 3 ELSE 0)

RECURSIVE expand_bits(_)
expand_bits(bs) ==
    IF bs = <<>> THEN <<>>
    ELSE Let(Head(bs), LAMBDA b :
             <<ExpandNibble(b, b \div 16), ExpandNibble(b, b % 16)>> \o expand_bits(Tail(bs)))

-----------------------------------------------------------------------------
(* BDFGlyphParser.                                                         *)

\* BDFGlyphParser.__init__
NewGlyph(name) ==
    [name |-> name, encoding |-> None, swidth |-> None, dwidth |-> None,
     bbx |-> None, wide |-> FALSE, bits |-> <<>>, changed |-> FALSE,
     bitmap |-> FALSE]

\* what a handler returns: the object as it was left, and the exception raised
Ret(o, e) == [o |-> o, exc |-> e]

glyph_do_bitmap(g, a) ==
    IF g.bitmap THEN Ret(g, "AssertionError")
    ELSE Ret([g EXCEPT !.bitmap = TRUE], "")

glyph_do_encoding(g, a) ==
    Let(ParseInt(a), LAMBDA n :
        IF n.ok THEN Ret([g EXCEPT !.encoding = Some(n.v)], "") ELSE Ret(g, "ValueError"))

glyph_do_swidth(g, a) ==
    Let(MapInt(Split(a)), LAMBDA l :
        IF l.ok THEN Ret([g EXCEPT !.swidth = Some(l.v)], "") ELSE Ret(g, "ValueError"))

glyph_do_dwidth(g, a) ==
    Let(MapInt(Split(a)), LAMBDA l :
        IF l.ok THEN Ret([g EXCEPT !.dwidth = Some(l.v)], "") ELSE Ret(g, "ValueError"))

glyph_do_bbx(g, a) ==
    Let(MapInt(Split(a)), LAMBDA l :
        IF ~l.ok THEN Ret(g, "ValueError")
        ELSE IF Len(l.v) < 2 THEN Ret([g EXCEPT !.bbx = Some(l.v)], "IndexError")
        ELSE Ret([g EXCEPT !.bbx = Some(l.v), !.wide = (l.v[1] = l.v[2])], ""))

\* the attributes do_* of a BDFGlyphParser
GlyphCommands == {"bitmap", "encoding", "swidth", "dwidth", "bbx", "unknown"}

\* BDFParserBase.feed on a BDFGlyphParser
glyph_base_feed(g, line) ==
    Let(Partition(line, " "), LAMBDA ca :
    Let(Lower(ca[1]), LAMBDA attr :
        IF attr \in GlyphCommands THEN
            CASE attr = "bitmap"   -> glyph_do_bitmap(g, ca[2])
              [] attr = "encoding" -> glyph_do_encoding(g, ca[2])
              [] attr = "swidth"   -> glyph_do_swidth(g, ca[2])
              [] attr = "dwidth"   -> glyph_do_dwidth(g, ca[2])
              [] attr = "bbx"      -> glyph_do_bbx(g, ca[2])
              \* do_unknown(cmd, args) called with the one argument args
              [] attr = "unknown"  -> Ret(g, "TypeError")
        ELSE Ret(g, "ValueError")))   \* BDFParserBase.do_unknown

\* BDFGlyphParser.feed
glyph_feed(g, line) ==
    IF g.bitmap THEN Ret([g EXCEPT !.bits = Append(@, line)], "")
    ELSE glyph_base_feed(g, line)

\* BDFGlyphParser.finish
glyph_finish(g) == [g EXCEPT !.bitmap = FALSE]

RECURSIVE MapBits(_, _)
\* [ f(bit.decode('hex')).encode('hex') for bit in rows ], f shrink or expand
MapBits(rows, shrink) ==
    IF rows = <<>> THEN [ok |-> TRUE, v |-> <<>>]
    ELSE Let(HexDecode(Head(rows)), LAMBDA d :
         Let(MapBits(Tail(rows), shrink), LAMBDA t :
             IF d.ok /\ t.ok
             THEN [ok |-> TRUE,
                   v  |-> <<HexEncode(IF shrink THEN shrink_bits(d.v) ELSE expand_bits(d.v))>>
                          \o t.v]
             ELSE [ok |-> FALSE, v |-> <<>>]))

\* x // 2 in both directions
ScaleByHalf(x, narrow) == x \div 2

\* x // 2 when narrowing, x * 2 when widening
ScaleBy(x, narrow) == IF narrow THEN x \div 2 ELSE x * 2

\* every element of the field scaled, not its first alone
ScaleEach(l, narrow) == Some([i \in 1..Len(l[1]) |-> ScaleBy(l[1][i], narrow)])

\* self.<field>[0] = self.<field>[0] // 2 (or * 2), for a field that is a list
ScaleFirst(l, narrow) == Some([l[1] EXCEPT ![1] = ScaleBy(@, narrow)])

\* adjust without its line 172: the wide flag is left as it was
adjust_keep_wide(g, wide) == Ret([g EXCEPT !.changed = TRUE], "")

\* BDFGlyphParser.adjust; indexing a field that is None is a TypeError
adjust(g, wide) ==
    IF g.wide # wide THEN
        IF g.swidth = None THEN Ret(g, "TypeError")
        ELSE Let([g EXCEPT !.swidth = ScaleFirst(@, g.wide)], LAMBDA g1 :
        IF g.dwidth = None THEN Ret(g1, "TypeError")
        ELSE Let([g1 EXCEPT !.dwidth = ScaleFirst(@, g.wide)], LAMBDA g2 :
        IF g.bbx = None THEN Ret(g2, "TypeError")
        ELSE Let([g2 EXCEPT !.bbx = ScaleFirst(@, g.wide)], LAMBDA g3 :
        Let(MapBits(g.bits, g.wide), LAMBDA b :
        IF ~b.ok THEN Ret(g3, "TypeError")
        ELSE Ret([g3 EXCEPT !.bits = b.v, !.changed = TRUE, !.wide = wide], "")))))
    ELSE Ret([g EXCEPT !.changed = TRUE, !.wide = wide], "")

\* dump without the loop of lines 186-187: no bitmap row is written
glyph_dump_blank(g, encoding) ==
    [ok |-> TRUE,
     v  |-> <<"STARTCHAR " \o g.name, "ENCODING " \o Str(encoding),
              "BBX " \o Join(MapStr(g.bbx[1]), " "), "BITMAP", "ENDCHAR">>]

\* BDFGlyphParser.dump: [ok, v]; not ok is AssertionError, nothing written
glyph_dump(g, encoding) ==
    IF g.swidth = None \/ g.dwidth = None \/ g.bbx = None
    THEN [ok |-> FALSE, v |-> <<>>]
    ELSE [ok |-> TRUE,
          v  |-> <<"STARTCHAR " \o g.name,
                   "ENCODING " \o Str(encoding),
                   "SWIDTH " \o Join(MapStr(g.swidth[1]), " "),
                   "DWIDTH " \o Join(MapStr(g.dwidth[1]), " "),
                   "BBX " \o Join(MapStr(g.bbx[1]), " "),
                   "BITMAP">> \o g.bits \o <<"ENDCHAR">>]

-----------------------------------------------------------------------------
(* BDFFileParser.                                                          *)

\* BDFFileParser.__init__ (an open glyph is Some(glyph) in the field glyph)
NewParser ==
    [version |-> None, name |-> None, size |-> None, bbx |-> None,
     props |-> None, comments |-> <<>>, glyphs |-> <<>>,
     prop |-> FALSE, glyph |-> None]

do_startfont(p, a) ==
    IF p.version # None THEN Ret(p, "AssertionError")
    ELSE Ret([p EXCEPT !.version = Some(a)], "")

do_endfont(p, a) == Ret(p, "")

do_comment(p, a) == Ret([p EXCEPT !.comments = Append(@, a)], "")

\* do_font without its line 233: a second FONT replaces the name
do_font_again(p, a) == Ret([p EXCEPT !.name = Some(a)], "")

do_font(p, a) ==
    IF p.name # None THEN Ret(p, "AssertionError")
    ELSE Ret([p EXCEPT !.name = Some(a)], "")

do_size(p, a) ==
    IF p.size # None THEN Ret(p, "AssertionError")
    ELSE Ret([p EXCEPT !.size = Some(a)], "")

do_fontboundingbox(p, a) ==
    IF p.bbx # None THEN Ret(p, "AssertionError")
    ELSE Ret([p EXCEPT !.bbx = Some(Split(a))], "")

do_startproperties(p, a) ==
    IF p.props # None \/ p.prop THEN Ret(p, "AssertionError")
    ELSE Ret([p EXCEPT !.props = Some(<<>>), !.prop = TRUE], "")

do_endproperties(p, a) ==
    IF p.props = None \/ ~p.prop THEN Ret(p, "AssertionError")
    ELSE Ret([p EXCEPT !.prop = FALSE], "")

do_chars(p, a) == Ret(p, "")

do_startchar(p, a) == Ret([p EXCEPT !.glyph = Some(NewGlyph(a))], "")

do_endchar(p) == [p EXCEPT !.glyphs = Append(@, p.glyph[1]), !.glyph = None]

\* a property value: an int or a str
IntVal(n) == [int |-> TRUE, i |-> n, s |-> ""]
StrVal(s) == [int |-> FALSE, i |-> 0, s |-> s]

_parse_str(p, k, v) ==
    IF ~StartsWith(v, "\"") \/ ~EndsWith(v, "\"") THEN Ret(p, "AssertionError")
    ELSE Ret([p EXCEPT !.props = Some(Append(@[1], <<k, StrVal(SubSeq(v, 2, Len(v) - 1))>>))],
             "")

_parse_int(p, k, v) ==
    Let(ParseInt(v), LAMBDA n :
        IF ~n.ok THEN Ret(p, "ValueError")
        ELSE Ret([p EXCEPT !.props = Some(Append(@[1], <<k, IntVal(n.v)>>))], ""))

\* the attributes prop_* bound to _parse_int and to _parse_str, lines 295-313
IntProps == {"font_ascent", "font_descent", "pixel_size", "point_size", "resolution_x",
             "resolution_y", "average_width", "default_char"}
StrProps == {"copyright", "fontname_registry", "foundry", "family_name", "weight_name",
             "slant", "setwidth_name", "add_style_name", "spacing", "charset_registry",
             "charset_encoding"}

\* cmd == entry, for a str cmd and a (k, v) tuple entry: never equal in Python
StrEqTuple(cmd, entry) == FALSE

\* cmd in self.props
InProps(cmd, props) == \E i \in 1..Len(props) : StrEqTuple(cmd, props[i])

\* do_unknown that raises nothing: the line is ignored
do_unknown_ignore(p, cmd, a) == Ret(p, "")

\* BDFFileParser.do_unknown
do_unknown(p, cmd, a) ==
    IF p.prop THEN
        IF InProps(cmd, p.props[1]) THEN Ret(p, "AssertionError")
        ELSE Let(Lower(cmd), LAMBDA attr :
                 IF attr \in IntProps THEN _parse_int(p, attr, a)
                 ELSE IF attr \in StrProps THEN _parse_str(p, attr, a)
                 ELSE Ret(p, "ValueError"))    \* prop_unknown
    ELSE Ret(p, "ValueError")    \* BDFParserBase.do_unknown

\* the attributes do_* of a BDFFileParser
FileCommands == {"startfont", "endfont", "comment", "font", "size", "fontboundingbox",
                 "startproperties", "endproperties", "chars", "startchar",
                 "endchar", "unknown"}

\* BDFParserBase.feed on a BDFFileParser
base_feed(p, line) ==
    Let(Partition(line, " "), LAMBDA ca :
    Let(Lower(ca[1]), LAMBDA attr :
        IF attr \in FileCommands THEN
            CASE attr = "startfont"       -> do_startfont(p, ca[2])
              [] attr = "endfont"         -> do_endfont(p, ca[2])
              [] attr = "comment"         -> do_comment(p, ca[2])
              [] attr = "font"            -> do_font(p, ca[2])
              [] attr = "size"            -> do_size(p, ca[2])
              [] attr = "fontboundingbox" -> do_fontboundingbox(p, ca[2])
              [] attr = "startproperties" -> do_startproperties(p, ca[2])
              [] attr = "endproperties"   -> do_endproperties(p, ca[2])
              [] attr = "chars"           -> do_chars(p, ca[2])
              [] attr = "startchar"       -> do_startchar(p, ca[2])
              \* do_endchar() and do_unknown(cmd, args) called with the one
              \* argument args
              [] attr = "endchar"         -> Ret(p, "TypeError")
              [] attr = "unknown"         -> Ret(p, "TypeError")
        ELSE do_unknown(p, ca[1], ca[2])))

\* BDFFileParser.feed
feed(p, line) ==
    IF p.glyph # None THEN
        IF Lower(line) = "endchar" THEN Ret(do_endchar([p EXCEPT !.glyph = Some(glyph_finish(@[1]))]), "")
        ELSE Let(glyph_feed(p.glyph[1], line), LAMBDA r :
                 Ret([p EXCEPT !.glyph = Some(r.o)], r.exc))
    ELSE base_feed(p, line)

RECURSIVE FeedLines(_, _)
\* for line in fp: parser.feed(line.strip()), up to the first exception
FeedLines(p, lines) ==
    IF lines = <<>> THEN Ret(p, "")
    ELSE Let(feed(p, Strip(Head(lines))), LAMBDA r :
             IF r.exc # "" THEN r ELSE FeedLines(r.o, Tail(lines)))

RECURSIVE PropIndex(_, _, _)
\* the first index at or after i whose key equals k0 ignoring case, 0 if none
PropIndex(props, k0, i) ==
    IF i > Len(props) THEN 0
    ELSE IF Lower(props[i][1]) = Lower(k0) THEN i
    ELSE PropIndex(props, k0, i + 1)

\* BDFFileParser.get_prop: [exc, v]; iterating props = None is a TypeError
get_prop(p, k0) ==
    IF p.props = None THEN [exc |-> "TypeError", v |-> StrVal("")]
    ELSE Let(PropIndex(p.props[1], k0, 1), LAMBDA i :
             IF i = 0 THEN [exc |-> "KeyError", v |-> StrVal("")]
             ELSE [exc |-> "", v |-> p.props[1][i][2]])

\* BDFFileParser.set_prop
set_prop(p, k0, v) ==
    IF p.props = None THEN Ret(p, "TypeError")
    ELSE Let(PropIndex(p.props[1], k0, 1), LAMBDA i :
             IF i = 0 THEN Ret(p, "KeyError")
             ELSE Ret([p EXCEPT !.props = Some([@[1] EXCEPT ![i] = <<@[1], v>>])], ""))

\* '%s' % v for a property value
ValStr(v) == IF v.int THEN Str(v.i) ELSE v.s

\* the properties joined into the FONT name, lines 340-354, in that order
NameProps == <<"FONTNAME_REGISTRY", "FOUNDRY", "FAMILY_NAME", "WEIGHT_NAME", "SLANT",
               "SETWIDTH_NAME", "ADD_STYLE_NAME", "PIXEL_SIZE", "POINT_SIZE",
               "RESOLUTION_X", "RESOLUTION_Y", "SPACING", "AVERAGE_WIDTH",
               "CHARSET_REGISTRY", "CHARSET_ENCODING">>

RECURSIVE NameParts(_, _)
\* the tuple of get_prop values of lines 340-354: [exc, v]
NameParts(p, ks) ==
    IF ks = <<>> THEN [exc |-> "", v |-> <<>>]
    ELSE Let(get_prop(p, Head(ks)), LAMBDA h :
             IF h.exc # "" THEN [exc |-> h.exc, v |-> <<>>]
             ELSE Let(NameParts(p, Tail(ks)), LAMBDA t :
                      IF t.exc # "" THEN t
                      ELSE [exc |-> "", v |-> <<ValStr(h.v)>> \o t.v]))

RECURSIVE PropLines(_)
\* the loop of lines 359-362
PropLines(props) ==
    IF props = <<>> THEN <<>>
    ELSE Let(Head(props), LAMBDA kv :
             <<Upper(kv[1]) \o " "
               \o (IF kv[2].int THEN Str(kv[2].i) ELSE "\"" \o kv[2].s \o "\"")>>
             \o PropLines(Tail(props)))

RECURSIVE CommentLines(_)
CommentLines(cs) ==
    IF cs = <<>> THEN <<>> ELSE <<"COMMENT " \o Head(cs)>> \o CommentLines(Tail(cs))

\* BDFFileParser.dump_header: [exc, v], v the lines written before exc was raised
dump_header(p) ==
    IF p.version = None \/ p.name = None \/ p.size = None \/ p.bbx = None
    THEN [exc |-> "AssertionError", v |-> <<>>]
    ELSE Let(<<"STARTFONT " \o p.version[1]>> \o CommentLines(p.comments), LAMBDA first :
         Let(NameParts(p, NameProps), LAMBDA name :
             IF name.exc # "" THEN [exc |-> name.exc, v |-> first]
             ELSE [exc |-> "",
                   v   |-> first
                           \o <<"FONT " \o Join(name.v, "-"),
                                "SIZE " \o p.size[1],
                                "FONTBOUNDINGBOX " \o Join(p.bbx[1], " "),
                                "STARTPROPERTIES " \o Str(Len(p.props[1]))>>
                           \o PropLines(p.props[1])
                           \o <<"ENDPROPERTIES">>]))

\* BDFFileParser.dump_footer
dump_footer == <<"ENDFONT">>

-----------------------------------------------------------------------------
(* The charset mappers of main, lines 18-24 and 386-397.                   *)

\* chr(x) for x = glyph.encoding: "" or the exception it raises
ChrExc(x) ==
    IF x = None THEN "TypeError"
    ELSE IF x[1] \notin 0..255 THEN "ValueError"
    ELSE ""

\* one byte decoded by the cp932 codec: 0x00-0x80 as is, 0xa0 -> U+F8F0,
\* 0xa1-0xdf -> U+FF61.., 0xfd-0xff -> U+F8F1.., a lead byte alone is an error
DecodeCp932(b) ==
    IF b <= 128 THEN [exc |-> "", v |-> b]
    ELSE IF b = 160 THEN [exc |-> "", v |-> 63728]
    ELSE IF b >= 161 /\ b <= 223 THEN [exc |-> "", v |-> 65216 + b]
    ELSE IF b >= 253 THEN [exc |-> "", v |-> 63729 + (b - 253)]
    ELSE [exc |-> "UnicodeDecodeError", v |-> 0]

jisx0201toucs(x) ==
    Let(ChrExc(x), LAMBDA c : IF c # "" THEN [exc |-> c, v |-> 0] ELSE DecodeCp932(x[1]))

\* the rows of JIS X 0208 for the codes the fonts of this model use:
\* 0x2121 -> U+3000, 0x2341 -> U+FF21, 0x3021 -> U+4E9C
JISX0208Rows == (8481 :> 12288) @@ (9025 :> 65313) @@ (12321 :> 20124)

\* two bytes decoded by the iso-2022-jp codec between ESC $ B and ESC ( B;
\* a first byte below 0x21 is no JIS X 0208 row
DecodeIso2022jp(hi, lo) ==
    IF 256 * hi + lo \in DOMAIN JISX0208Rows
    THEN [exc |-> "", v |-> JISX0208Rows[256 * hi + lo]]
    ELSE [exc |-> "UnicodeDecodeError", v |-> 0]

jisx0208toucs(x) ==
    IF x = None THEN [exc |-> "TypeError", v |-> 0]
    ELSE IF x[1] \div 256 \notin 0..255 THEN [exc |-> "ValueError", v |-> 0]
    ELSE DecodeIso2022jp(x[1] \div 256, x[1] % 256)

\* the codecs ''.decode(codec) finds, by their lower-case names
KnownCodecs == {"iso8859-1"}

\* lambda x: ord(chr(x).decode(codec)), for the codecs of KnownCodecs
codectoucs(x) ==
    Let(ChrExc(x), LAMBDA c : IF c # "" THEN [exc |-> c, v |-> 0] ELSE [exc |-> "", v |-> x[1]])

HasPrefix(s, t) == Len(s) >= Len(t) /\ SubSeq(s, 1, Len(t)) = t

\* lines 388-397: the mapper f chosen for a codec, "" with LookupError when
\* the codec is unknown (a LookupError is no UnicodeError: it is not caught)
SelectMapper(codec) ==
    IF HasPrefix(codec, "JISX0201") THEN [exc |-> "", f |-> "jisx0201toucs"]
    ELSE IF HasPrefix(codec, "JISX0208") THEN [exc |-> "", f |-> "jisx0208toucs"]
    ELSE IF Lower(codec) \in KnownCodecs THEN [exc |-> "", f |-> "codectoucs"]
    ELSE [exc |-> "LookupError", f |-> ""]

\* f(x)
Apply(f, x) ==
    CASE f = "jisx0201toucs" -> jisx0201toucs(x)
      [] f = "jisx0208toucs" -> jisx0208toucs(x)
      [] f = "codectoucs"    -> codectoucs(x)

\* lines 386-387: [exc, v]
Codec(p) ==
    Let(get_prop(p, "CHARSET_REGISTRY"), LAMBDA r :
        IF r.exc # "" THEN [exc |-> r.exc, v |-> ""]
        ELSE Let(get_prop(p, "CHARSET_ENCODING"), LAMBDA e :
        IF e.exc # "" THEN [exc |-> e.exc, v |-> ""]
        ELSE IF r.v.int \/ e.v.int THEN [exc |-> "TypeError", v |-> ""]
        ELSE [exc |-> "", v |-> r.v.s \o "-" \o e.v.s]))

RECURSIVE Convert(_, _, _)
\* the loop of lines 399-404 over the glyphs gs left, from the dict d
Convert(gs, f, d) ==
    IF gs = <<>> THEN Ret(d, "")
    ELSE Let(Apply(f, Head(gs).encoding), LAMBDA e :
             IF e.exc # "" THEN Ret(d, e.exc)
             ELSE IF e.v \in DOMAIN d
             THEN Convert(Tail(gs), f, [d EXCEPT ![e.v] = Append(@, Head(gs))])
             ELSE Convert(Tail(gs), f, d @@ (e.v :> <<Head(gs)>>)))

-----------------------------------------------------------------------------
(* main.                                                                   *)

ambwide == FALSE

\* CHARWIDTH.get(e), None written as '%s' writes it
WidthOf(table, e) == IF e \in DOMAIN table THEN table[e] ELSE "None"

\* every glyph is accepted, whatever the category
OkAny(g, wid) == TRUE

\* lines 414-420: ok for glyph g under category wid
Ok(g, wid) ==
    IF wid = "F" \/ wid = "W" THEN g.wide
    ELSE IF wid = "H" \/ wid = "Na" THEN ~g.wide
    ELSE IF wid = "A" THEN g.wide = ambwide
    ELSE TRUE

RECURSIVE Scan(_, _, _)
\* the for loop of lines 413-423 from index i: the index it breaks at, 0 when
\* it runs to its end
Scan(cands, wid, i) ==
    IF i > Len(cands) THEN 0
    ELSE IF Ok(cands[i], wid) THEN i
    ELSE Scan(cands, wid, i + 1)

\* the index of the glyph the name glyph is bound to in the else clause of the
\* loop, lines 425-427: the loop variable after the loop has run to its end
ElseGlyph(cands) == Len(cands)

RECURSIVE SortedFrom(_)
SortedFrom(S) ==
    IF S = {} THEN <<>>
    ELSE Let(CHOOSE x \in S : \A y \in S : x <= y, LAMBDA m :
             <<m>> \o SortedFrom(S \ {m}))

\* the keys of d in descending order
SortedDown(d) == [i \in 1..Cardinality(DOMAIN d) |->
                     SortedFrom(DOMAIN d)[Cardinality(DOMAIN d) + 1 - i]]

\* sorted(glyphs)
Sorted(d) == SortedFrom(DOMAIN d)

RECURSIVE HexStr(_)
HexStr(n) ==
    IF n < 16 THEN Char(HexDigits, n + 1)
    ELSE HexStr(n \div 16) \o Char(HexDigits, (n % 16) + 1)

RECURSIVE ZeroPad(_, _)
ZeroPad(s, w) == IF Len(s) >= w THEN s ELSE ZeroPad("0" \o s, w)

\* the message of line 425
Warning(e, wid, wide) ==
    "warning: invalid width: U+" \o ZeroPad(HexStr(e), 4) \o " (" \o wid \o ":"
    \o (IF wide THEN "True" ELSE "False") \o ")"

-----------------------------------------------------------------------------
(* The input files of a run of main.                                       *)

\* the most glyphs the input fonts of a run hold together
MaxGlyphs == 2

\* the charsets of the input fonts: registry, encoding, and the native codes
\* the fonts use (0x41, 0xa1, 0xa9; 0x41, 0xa1; 0x2121, 0x3021)
Charsets ==
    { [reg |-> "ISO8859",        enc |-> "1", codes |-> {65, 161, 169}],
      [reg |-> "JISX0201.1976",  enc |-> "0", codes |-> {65, 161}],
      [reg |-> "JISX0208.1983",  enc |-> "0", codes |-> {8481, 12321}] }

\* what is wrong with a file, "" for a well-formed one
Defects == {"unknown command", "duplicate FONT", "bad string", "unknown property",
            "unknown charset", "no FOUNDRY", "no SIZE", "no SWIDTH", "no ENCODING",
            "not in charset", "duplicate property"}

\* a glyph block: a 2x2 (wide) or 1x2 (narrow) glyph of two rows
GlyphLines(name, code, wide, defect) ==
    <<"STARTCHAR " \o name>>
    \o (IF defect = "no ENCODING" THEN <<>> ELSE <<"ENCODING " \o Str(code)>>)
    \o (IF defect = "no SWIDTH" THEN <<>>
        ELSE <<IF wide THEN "SWIDTH 1000 0" ELSE "SWIDTH 500 0">>)
    \o (IF wide THEN <<"DWIDTH 2 0", "BBX 2 2 0 -1", "BITMAP", "C0", "40">>
        ELSE <<"DWIDTH 1 0", "BBX 1 2 0 -1", "BITMAP", "80", "00">>)
    \o <<"ENDCHAR">>

RECURSIVE GlyphBlocks(_, _, _, _)
\* the blocks of the glyphs ks[j..], named <tag>g<j>
GlyphBlocks(tag, ks, j, defect) ==
    IF j > Len(ks) THEN <<>>
    ELSE GlyphLines(tag \o "g" \o Str(j), ks[j].code, ks[j].wide, defect)
         \o GlyphBlocks(tag, ks, j + 1, defect)

\* the lines of a font file
FontLines(tag, cs, ks, defect) ==
    <<"STARTFONT 2.1", "COMMENT font " \o tag, "COMMENT public domain",
      "FONT -misc-fixed-" \o tag>>
    \o (IF defect = "duplicate FONT" THEN <<"FONT again">> ELSE <<>>)
    \o (IF defect = "no SIZE" THEN <<>> ELSE <<"SIZE 2 75 75">>)
    \o (IF defect = "unknown command" THEN <<"METRICSSET 0">> ELSE <<>>)
    \o <<"FONTBOUNDINGBOX 2 2 0 -1", "STARTPROPERTIES 17",
         "FONT_ASCENT 1", "FONTNAME_REGISTRY \"\"">>
    \o (IF defect = "no FOUNDRY" THEN <<>>
        ELSE IF defect = "bad string" THEN <<"FOUNDRY \"misc">>
        ELSE <<"FOUNDRY \"misc\"">>)
    \o (IF defect = "unknown property" THEN <<"X_HEIGHT 1">> ELSE <<>>)
    \o <<"FAMILY_NAME \"fixed\"", "weight_name \"medium\"", "SLANT \"r\"",
         "SETWIDTH_NAME \"normal\"", "ADD_STYLE_NAME \"\"", "PIXEL_SIZE 2",
         "POINT_SIZE 20", "RESOLUTION_X 75", "RESOLUTION_Y 75", "SPACING \"c\"",
         "AVERAGE_WIDTH 10",
         "CHARSET_REGISTRY \""
             \o (IF defect = "unknown charset" THEN "BOGUS" ELSE cs.reg) \o "\"",
         "CHARSET_ENCODING \"" \o cs.enc \o "\"", "FONT_DESCENT 1">>
    \o (IF defect = "duplicate property"
        THEN <<"CHARSET_REGISTRY \"" \o cs.reg \o "\"">> ELSE <<>>)
    \o <<"ENDPROPERTIES", "CHARS " \o Str(Len(ks))>>
    \o GlyphBlocks(tag, ks, 1, defect)
    \o <<"ENDFONT">>

\* the glyphs a font of charset cs may hold: a code of the charset, wide or narrow
Kinds(cs) == [code : cs.codes, wide : BOOLEAN]

\* the charset of the font with defect d: a JIS X 0208 font holds the code
\* 0x41 that is "not in charset", the other defects are in an ISO 8859-1 font
DefectCharset(d) ==
    CHOOSE cs \in Charsets :
        cs.reg = (IF d = "not in charset" THEN "JISX0208.1983" ELSE "ISO8859")

\* the i-th file of the command line, holding m glyphs: a well-formed font of
\* any charset, or (one glyph, a narrow one of code 0x41) a font with one
\* defect; a file is given by what makes up its lines
FilesAt(i, m) ==
    { [tag |-> "f" \o Str(i), cs |-> c[1], ks |-> c[2], defect |-> ""] :
          c \in UNION { {cs} \X [1..m -> Kinds(cs)] : cs \in Charsets } }
    \cup (IF m = 1
          THEN { [tag |-> "f" \o Str(i), cs |-> DefectCharset(d),
                  ks |-> <<[code |-> 65, wide |-> FALSE]>>, defect |-> d] : d \in Defects }
          ELSE {})

\* the name of a file and its lines
PathOf(f) == f.tag \o ".bdf"
LinesOf(f) == FontLines(f.tag, f.cs, f.ks, f.defect)

RECURSIVE ArgsFrom(_, _)
\* the command lines whose files, numbered from i, hold at most n glyphs
\* together, each at least one
ArgsFrom(i, n) ==
    {<<>>} \cup UNION { { <<f>> \o rest : f \in FilesAt(i, m), rest \in ArgsFrom(i + 1, n - m) } :
                        m \in 1..n }

\* EastAsianWidth.txt for the code points the fonts map to: U+0041 Na,
\* U+00A1 A, U+00A9 N, U+3000 F, U+4E9C W, U+FF61 H
EastAsianWidth ==
    (65 :> "Na") @@ (161 :> "A") @@ (169 :> "N") @@ (12288 :> "F") @@ (20124 :> "W")
    @@ (65377 :> "H")

\* the width tables load_charwidth may have built: the published table, or none
\* of its lines
Tables == {EastAsianWidth, <<>>}

\* every file a command line of ArgsFrom(1, MaxGlyphs) may name: the i-th
\* file comes after i - 1 files of one glyph or more
AllFiles ==
    UNION { UNION { FilesAt(i, m) : m \in 1..(MaxGlyphs - i + 1) } : i \in 1..MaxGlyphs }

\* lines 381-385 for each of these files, tabulated: the parser after
\* `for line in fp: parser.feed(line.strip())` and the exception that ended it
Parsed == [f \in AllFiles |-> FeedLines(NewParser, LinesOf(f))]

-----------------------------------------------------------------------------
(* main, lines 371-429.                                                   *)

\* one pass of the loop of lines 379-404 for a file's lines: the parser, the
\* dict and the exception (if any) it ends with
ReadOne(file, d) ==
    Let(Parsed[file], LAMBDA r :
        IF r.exc # "" THEN [parser |-> r.o, glyphs |-> d, exc |-> r.exc]
        ELSE Let(Codec(r.o), LAMBDA c :
        IF c.exc # "" THEN [parser |-> r.o, glyphs |-> d, exc |-> c.exc]
        ELSE Let(SelectMapper(c.v), LAMBDA m :
        IF m.exc # "" THEN [parser |-> r.o, glyphs |-> d, exc |-> m.exc]
        ELSE Let(Convert(r.o.glyphs, m.f, d), LAMBDA g :
        [parser |-> r.o, glyphs |-> g.o, exc |-> g.exc]))))

\* lines 379-404, one pass of `for path in args`
ReadFile ==
    /\ pc = "read" /\ args # <<>>
    /\ \E r \in {ReadOne(Head(args), glyphs)} :
           /\ parser' = Some(r.parser)
           /\ glyphs' = r.glyphs
           /\ exc' = r.exc
           /\ pc' = IF r.exc # "" THEN "abort" ELSE "read"
    /\ args' = Tail(args)
    /\ err' = Append(err, "reading: '" \o PathOf(Head(args)) \o "'")
    /\ fed' = fed \o LinesOf(Head(args))
    /\ UNCHANGED <<CHARWIDTH, ki, out, glyph, bits, res, target>>

\* lines 406-410: [parser, out, exc] from the parser of the last file
HeaderOf(p, d) ==
    Let(set_prop(p, "CHARSET_REGISTRY", StrVal("ISO10646")), LAMBDA r1 :
        IF r1.exc # "" THEN [parser |-> r1.o, out |-> <<>>, exc |-> r1.exc]
        ELSE Let(set_prop(r1.o, "CHARSET_ENCODING", StrVal("1")), LAMBDA r2 :
        IF r2.exc # "" THEN [parser |-> r2.o, out |-> <<>>, exc |-> r2.exc]
        ELSE Let(dump_header(r2.o), LAMBDA h :
        IF h.exc # "" THEN [parser |-> r2.o, out |-> h.v, exc |-> h.exc]
        ELSE [parser |-> r2.o,
              out    |-> h.v \o <<"CHARS " \o Str(Cardinality(DOMAIN d))>>,
              exc    |-> ""])))

\* lines 406-410, after the last file was read
Header ==
    /\ pc = "read" /\ args = <<>>
    /\ IF parser = None
       THEN /\ exc' = "AssertionError"
            /\ pc' = "abort"
            /\ UNCHANGED <<parser, out>>
       ELSE \E h \in {HeaderOf(parser[1], glyphs)} :
                /\ parser' = Some(h.parser)
                /\ out' = out \o h.out
                /\ exc' = h.exc
                /\ pc' = IF h.exc # "" THEN "abort" ELSE "merge"
    /\ UNCHANGED <<args, glyphs, CHARWIDTH, ki, err, glyph, bits, res, fed, target>>

\* one pass that writes the record of the first candidate twice
MergeOneTwice(cands, wid, e) ==
    [cands |-> cands, out |-> glyph_dump(cands[1], e).v \o glyph_dump(cands[1], e).v,
     err |-> <<>>, exc |-> ""]

\* one pass whose else clause writes the warning and the last candidate as it
\* is, without the call of adjust
MergeOneAsIs(cands, wid, e) ==
    Let(IF Scan(cands, wid, 1) # 0 THEN Scan(cands, wid, 1) ELSE Len(cands), LAMBDA i :
        [cands |-> cands, out |-> glyph_dump(cands[i], e).v,
         err |-> IF Scan(cands, wid, 1) # 0 THEN <<>>
                 ELSE <<Warning(e, wid, cands[i].wide)>>,
         exc |-> IF glyph_dump(cands[i], e).ok THEN "" ELSE "AssertionError"])

\* lines 412-427 for code point e: [cands, out, err, exc], what one pass of
\* `for e in sorted(glyphs)` leaves of glyphs[e] and writes
MergeOne(cands, wid, e) ==
    Let(Scan(cands, wid, 1), LAMBDA i :
        IF i # 0 THEN
            Let(glyph_dump(cands[i], e), LAMBDA d :
                [cands |-> cands, out |-> d.v, err |-> <<>>,
                 exc |-> IF d.ok THEN "" ELSE "AssertionError"])
        ELSE
            Let(ElseGlyph(cands), LAMBDA j :
            Let(<<Warning(e, wid, cands[j].wide)>>, LAMBDA w :
            Let(adjust(cands[j], wid \in {"F", "W"}), LAMBDA a :
                IF a.exc # "" THEN
                    [cands |-> [cands EXCEPT ![j] = a.o], out |-> <<>>, err |-> w,
                     exc |-> a.exc]
                ELSE
                    Let(glyph_dump(a.o, e), LAMBDA d :
                        [cands |-> [cands EXCEPT ![j] = a.o], out |-> d.v, err |-> w,
                         exc |-> IF d.ok THEN "" ELSE "AssertionError"])))))

\* lines 411-427, one pass of `for e in sorted(glyphs)`
MergeStep ==
    /\ pc = "merge" /\ ki < Len(Sorted(glyphs))
    /\ \E e \in {Sorted(glyphs)[ki + 1]} :
       \E r \in {MergeOne(glyphs[e], WidthOf(CHARWIDTH, e), e)} :
           /\ glyphs' = [glyphs EXCEPT ![e] = r.cands]
           /\ out' = out \o r.out
           /\ err' = err \o r.err
           /\ exc' = r.exc
           /\ pc' = IF r.exc # "" THEN "abort" ELSE "merge"
           /\ ki' = IF r.exc # "" THEN ki ELSE ki + 1
    /\ UNCHANGED <<args, parser, CHARWIDTH, glyph, bits, res, fed, target>>

\* lines 428-429
Footer ==
    /\ pc = "merge" /\ ki = Len(Sorted(glyphs))
    /\ out' = out \o dump_footer
    /\ pc' = "done"
    /\ UNCHANGED <<args, parser, glyphs, CHARWIDTH, ki, err, exc, glyph, bits, res, fed, target>>

\* main at line 379, before the first file is read
Init ==
    /\ pc = "read"
    /\ args \in ArgsFrom(1, MaxGlyphs)
    /\ parser = None
    /\ glyphs = <<>>
    /\ CHARWIDTH \in Tables
    /\ ki = 0
    /\ out = <<>>
    /\ err = <<>>
    /\ exc = ""
    /\ glyph = None
    /\ bits = <<>>
    /\ res = <<>>
    /\ fed = <<>>
    /\ target = None

Next == ReadFile \/ Header \/ MergeStep \/ Footer

Spec == Init /\ [][Next]_vars

-----------------------------------------------------------------------------
(* A parser run: lines 381-384 on one file, line by line.                  *)

\* the most lines of a file
MaxLines == 4

\* the lines a file is made of
Lines ==
    {"STARTFONT 2.1", "COMMENT a", "COMMENT b", "FONT a", "FONT b", "SIZE 2 75 75",
     "FONTBOUNDINGBOX 2 2 0 -1", "STARTPROPERTIES 1", "ENDPROPERTIES", "FOUNDRY \"a\"",
     "STARTCHAR a", "BITMAP", "ENDCHAR", "endchar", "FONT_ASCENT 1", "X_HEIGHT 1",
     "UNKNOWN x", ""}

\* line 381
InitParse ==
    /\ pc = "feed"
    /\ args = <<>>
    /\ parser = Some(NewParser)
    /\ glyphs = <<>>
    /\ CHARWIDTH = <<>>
    /\ ki = 0
    /\ out = <<>>
    /\ err = <<>>
    /\ exc = ""
    /\ glyph = None
    /\ bits = <<>>
    /\ res = <<>>
    /\ fed = <<>>
    /\ target = None

\* lines 383-384, one pass of `for line in fp`
Feed ==
    /\ pc = "feed" /\ Len(fed) < MaxLines
    /\ \E line \in Lines :
       \E r \in {feed(parser[1], Strip(line))} :
           /\ parser' = Some(r.o)
           /\ exc' = r.exc
           /\ pc' = IF r.exc # "" THEN "abort" ELSE "feed"
           /\ fed' = Append(fed, line)
    /\ UNCHANGED <<args, glyphs, CHARWIDTH, ki, out, err, glyph, bits, res, target>>

NextParse == Feed

SpecParse == InitParse /\ [][NextParse]_vars

-----------------------------------------------------------------------------
(* A transcoder run: one glyph is parsed, then adjust is called on it.     *)

\* the largest width and height of a bounding box
MaxDim == 4

\* the most calls of adjust on the glyph
MaxAdjust == 2

\* the SWIDTH lines of a glyph block, none when the glyph has no SWIDTH
SwidthLines == {<<>>, <<"SWIDTH 500 0">>, <<"SWIDTH 1001 0">>, <<"SWIDTH -1001 0">>}

\* the bitmap rows of a glyph block (the last is no hex string)
RowLines == {<<>>, <<"C0", "40">>, <<"A5F0", "0001", "FFFF">>, <<"8">>}

\* the lines of a glyph block with a w x h bounding box
BlockLines(w, h, sw, rows) ==
    <<"STARTCHAR a", "ENCODING 65">> \o sw
    \o <<"DWIDTH " \o Str(w) \o " 0", "BBX " \o Str(w) \o " " \o Str(h) \o " 0 -1",
         "BITMAP">>
    \o rows \o <<"ENDCHAR">>

InitGlyph ==
    /\ pc = "glyph"
    /\ args = <<>>
    /\ parser = Some(NewParser)
    /\ glyphs = <<>>
    /\ CHARWIDTH = <<>>
    /\ ki = 0
    /\ out = <<>>
    /\ err = <<>>
    /\ exc = ""
    /\ glyph = None
    /\ bits = <<>>
    /\ res = <<>>
    /\ fed = <<>>
    /\ target = None

\* lines 383-384 over a glyph block: the glyph parsed is parser.glyphs[0]
GlyphParse ==
    /\ pc = "glyph"
    /\ \E w \in 0..MaxDim, h \in 0..MaxDim, sw \in SwidthLines, rows \in RowLines :
       \E r \in {FeedLines(parser[1], BlockLines(w, h, sw, rows))} :
           /\ fed' = BlockLines(w, h, sw, rows)
           /\ parser' = Some(r.o)
           /\ exc' = r.exc
           /\ glyph' = IF r.exc # "" THEN None ELSE Some(r.o.glyphs[1])
           /\ pc' = IF r.exc # "" THEN "abort" ELSE "parsed"
    /\ UNCHANGED <<args, glyphs, CHARWIDTH, ki, out, err, bits, res, target>>

\* glyph.adjust(wide=wide), line 426, for either target
Adjust ==
    /\ pc \in {"parsed", "adjusted"} /\ ki < MaxAdjust
    /\ \E wide \in BOOLEAN :
       \E r \in {adjust(glyph[1], wide)} :
           /\ glyph' = Some(r.o)
           /\ target' = Some(wide)
           /\ exc' = r.exc
           /\ pc' = IF r.exc # "" THEN "abort" ELSE "adjusted"
    /\ ki' = ki + 1
    /\ UNCHANGED <<args, parser, glyphs, CHARWIDTH, out, err, bits, res, fed>>

NextGlyph == GlyphParse \/ Adjust

SpecGlyph == InitGlyph /\ [][NextGlyph]_vars

-----------------------------------------------------------------------------
(* A bit-function run: expand_bits or shrink_bits applied to a row.        *)

\* the most bytes of a row
MaxBytes == 2

\* the bytes of a row after its first
TailBytes == {0, 15, 165, 240}

RECURSIVE TailsOf(_)
\* the sequences of at most n of these bytes
TailsOf(n) ==
    IF n = 0 THEN {<<>>}
    ELSE {<<>>} \cup { <<b>> \o t : b \in TailBytes, t \in TailsOf(n - 1) }

\* the rows: empty, or any first byte followed by fewer than MaxBytes bytes
Rows == {<<>>} \cup { <<b>> \o t : b \in 0..255, t \in TailsOf(MaxBytes - 1) }

InitBits ==
    /\ pc = "bits"
    /\ args = <<>>
    /\ parser = None
    /\ glyphs = <<>>
    /\ CHARWIDTH = <<>>
    /\ ki = 0
    /\ out = <<>>
    /\ err = <<>>
    /\ exc = ""
    /\ glyph = None
    /\ bits \in Rows
    /\ res = <<>>
    /\ fed = <<>>
    /\ target = None

\* expand_bits(bits)
Expand ==
    /\ pc = "bits"
    /\ res' = expand_bits(bits)
    /\ pc' = "expanded"
    /\ UNCHANGED <<args, parser, glyphs, CHARWIDTH, ki, out, err, exc, glyph, bits, fed,
                   target>>

\* shrink_bits(bits)
Shrink ==
    /\ pc = "bits"
    /\ res' = shrink_bits(bits)
    /\ pc' = "shrunk"
    /\ UNCHANGED <<args, parser, glyphs, CHARWIDTH, ki, out, err, exc, glyph, bits, fed,
                   target>>

NextBits == Expand \/ Shrink

SpecBits == InitBits /\ [][NextBits]_vars

-----------------------------------------------------------------------------
(* The merge, as the specification states it.                              *)

\* the width a category requires of a glyph: "wide", "narrow", "" for none
Required(wid) ==
    IF wid \in {"F", "W"} THEN "wide"
    ELSE IF wid \in {"H", "Na", "A"} THEN "narrow"
    ELSE ""

\* glyph g has the width category wid requires
Matches(g, wid) == Required(wid) = "" \/ (g.wide <=> Required(wid) = "wide")

\* the index of the first candidate that matches, given that one does
FirstMatch(cands, wid) ==
    CHOOSE i \in 1..Len(cands) :
        Matches(cands[i], wid) /\ \A j \in 1..(i - 1) : ~Matches(cands[j], wid)

\* a merge step is about to handle the next code point
Merging == pc = "merge" /\ ki < Len(Sorted(glyphs))

\* the code point the next merge step handles, its candidates and its category
NextCode == Sorted(glyphs)[ki + 1]
NextCands == glyphs[NextCode]
NextWid == WidthOf(CHARWIDTH, NextCode)

\* the position of a glyph named f<i>g<j> in the input: file i, then glyph j
InputOrder(name) == 10 * DigitsValue(Char(name, 2)) + DigitsValue(Char(name, 4))

\* every candidate list is in input-font order, then glyph order
CandidatesInInputOrder ==
    \A e \in DOMAIN glyphs : \A a, b \in 1..Len(glyphs[e]) :
        a < b => InputOrder(glyphs[e][a].name) < InputOrder(glyphs[e][b].name)

\* no line of err is a warning
NoWarning == \A i \in 1..Len(err) : ~HasPrefix(err[i], "warning")

\* C1: in every merge step, the candidates are in input-font order and then
\* glyph order, and when some candidate has the required width (any candidate
\* does at an unclassified code point) the step writes the record of the
\* first such candidate as it was parsed, under the Unicode code point,
\* transcodes no candidate and writes no warning (it writes nothing if that
\* glyph cannot be dumped and the run aborts).
C1_FirstMatchWins ==
    [][ Merging =>
          /\ CandidatesInInputOrder
          /\ (\E i \in 1..Len(NextCands) : Matches(NextCands[i], NextWid)) =>
                /\ err' = err
                /\ glyphs' = glyphs
                /\ out' = out \o (IF exc' = ""
                                  THEN glyph_dump(NextCands[FirstMatch(NextCands, NextWid)],
                                                  NextCode).v
                                  ELSE <<>>) ]_vars

\* C1 witness: a code point that requires a narrow glyph was merged from a wide
\* glyph of the first font and a narrow glyph of the second; the second font's
\* glyph was written and no warning was
C1_Witness ==
    /\ pc = "done" /\ NoWarning
    /\ \E e \in DOMAIN glyphs :
          /\ Required(WidthOf(CHARWIDTH, e)) = "narrow"
          /\ Len(glyphs[e]) = 2
          /\ glyphs[e][1].wide /\ ~glyphs[e][2].wide
          /\ glyphs[e][1].name = "f1g1" /\ glyphs[e][2].name = "f2g1"
          /\ \E i \in 1..Len(out) : out[i] = "STARTCHAR f2g1"
          /\ \A i \in 1..Len(out) : out[i] # "STARTCHAR f1g1"

\* C2: in every merge step where no candidate has the required width, the
\* step writes a warning with the first candidate's wide flag, transcodes the
\* first candidate to the required width, marks it changed, and writes the
\* record of that transcoded first candidate.
C2_FallbackUsesFirst ==
    [][ (Merging /\ \A i \in 1..Len(NextCands) : ~Matches(NextCands[i], NextWid)) =>
          /\ err' = Append(err, Warning(NextCode, NextWid, NextCands[1].wide))
          /\ exc' = "" =>
                /\ glyphs'[NextCode][1] = adjust(NextCands[1], Required(NextWid) = "wide").o
                /\ glyphs'[NextCode][1].changed
                /\ out' = out \o glyph_dump(glyphs'[NextCode][1], NextCode).v ]_vars

-----------------------------------------------------------------------------
(* The wide flag of a glyph.                                               *)

\* the bounding box of the glyph of a transcoder run is square
SquareBox == glyph[1].bbx[1][1] = glyph[1].bbx[1][2]

-----------------------------------------------------------------------------
(* The output of a run of main.                                            *)

\* the text of line after the prefix pre
After(line, pre) == SubSeq(line, Len(pre) + 1, Len(line))

RECURSIVE Encodings(_)
\* the code points of the ENCODING lines of lines, in the order written
Encodings(lines) ==
    IF lines = <<>> THEN <<>>
    ELSE (IF HasPrefix(Head(lines), "ENCODING ")
          THEN <<ParseInt(After(Head(lines), "ENCODING ")).v>> ELSE <<>>)
         \o Encodings(Tail(lines))

\* how many lines of out begin with pre
CountOf(pre) == Cardinality({i \in 1..Len(out) : HasPrefix(out[i], pre)})

\* the CHARS line was written: the header is complete and the merge has begun
MergeBegun == \E i \in 1..Len(out) : HasPrefix(out[i], "CHARS ")

\* C4 as stated: when the run aborts before the merge loop (on an unknown
\* command or property, a duplicate header field, a malformed string, an
\* unknown charset, or a property missing from the output FONT name), no
\* line has been written to the output.
C4_NoPartialOutput == (pc = "abort" /\ ~MergeBegun) => out = <<>>

\* C5: once the header is written there is one CHARS line and it counts the
\* merged code points; every merge step so far has written exactly one glyph
\* record, all for different merged code points; and when the run is done
\* every merged code point has its record.
C5_OneRecordPerCodePoint ==
    pc \in {"merge", "done"} =>
        LET written == Encodings(out)
        IN  /\ CountOf("CHARS ") = 1
            /\ \A i \in 1..Len(out) : HasPrefix(out[i], "CHARS ") =>
                   out[i] = "CHARS " \o Str(Cardinality(DOMAIN glyphs))
            /\ Len(written) = ki
            /\ CountOf("STARTCHAR ") = ki /\ CountOf("ENDCHAR") = ki
            /\ \A i, j \in 1..ki : i # j => written[i] # written[j]
            /\ \A i \in 1..ki : written[i] \in DOMAIN glyphs
            /\ pc = "done" =>
                   /\ ki = Cardinality(DOMAIN glyphs)
                   /\ {written[i] : i \in 1..ki} = DOMAIN glyphs

\* C5 witness: a finished run in which one code point had two candidates,
\* neither of the required width, and got one record, made by the fallback
C5_Witness ==
    /\ pc = "done" /\ ~NoWarning
    /\ \E e \in DOMAIN glyphs : Len(glyphs[e]) = 2
    /\ CountOf("STARTCHAR ") = 1

\* the Unicode code points the charsets of the input fonts map to
UnicodePoints == {65, 161, 169, 12288, 20124, 65377}

\* C6: the ENCODING lines written so far are in strictly ascending order of
\* code point, each is a Unicode code point (no font-native code), and ENDFONT
\* is written only as the last line, after the record of every merged code
\* point.
C6_AscendingUnicodeOrder ==
    LET written == Encodings(out)
    IN  /\ \A i, j \in 1..Len(written) : i < j => written[i] < written[j]
        /\ \A i \in 1..Len(written) : written[i] \in UnicodePoints
        /\ \A i \in 1..Len(out) : out[i] = "ENDFONT" => (pc = "done" /\ i = Len(out))
        /\ pc = "done" =>
              /\ out[Len(out)] = "ENDFONT"
              /\ Len(written) = Cardinality(DOMAIN glyphs)

\* C6 witness: the first font holds JIS X 0208 code 0x2121 (U+3000), the
\* second font a glyph of a lower code point; the run is done and the record
\* of the second font's glyph was written first, U+3000 last
C6_Witness ==
    /\ pc = "done"
    /\ 12288 \in DOMAIN glyphs
    /\ glyphs[12288][1].name = "f1g1" /\ glyphs[12288][1].encoding = Some(8481)
    /\ \E e \in DOMAIN glyphs : e < 12288 /\ glyphs[e][1].name = "f2g1"
    /\ Len(Encodings(out)) = 2 /\ Encodings(out)[2] = 12288

-----------------------------------------------------------------------------
(* The lines of a parser run, as the specification reads them.             *)

\* the first token of a line, and the rest of it
Command(line) == Partition(line, " ")[1]
Argument(line) == Partition(line, " ")[2]

\* line k was rejected: the run ended on it with an error
Rejected(k) == k = Len(fed) /\ exc # ""

\* a properties block was opened before line k and not closed before it
BlockOpenAt(k) ==
    \E i \in 1..(k - 1) :
        /\ Command(fed[i]) = "STARTPROPERTIES"
        /\ \A j \in (i + 1)..(k - 1) : fed[j] # "ENDPROPERTIES"

\* a properties block was opened before line k
BlockDeclaredAt(k) == \E i \in 1..(k - 1) : Command(fed[i]) = "STARTPROPERTIES"

\* a glyph was opened before line k and not closed before it
GlyphOpenAt(k) ==
    \E i \in 1..(k - 1) :
        /\ Command(fed[i]) = "STARTCHAR"
        /\ \A j \in (i + 1)..(k - 1) : fed[j] # "ENDCHAR"

\* a glyph was open at line k and a BITMAP line was read in it before line k
BitmapOpenAt(k) ==
    \E i, j \in 1..(k - 1) :
        /\ i < j
        /\ Command(fed[i]) = "STARTCHAR" /\ fed[j] = "BITMAP"
        /\ \A m \in (i + 1)..(k - 1) : fed[m] # "ENDCHAR"

\* C7 as stated: a BITMAP line read while a glyph is open and a BITMAP line
\* was already read for it ends the parse with an error.
C7_SecondBitmapFatal ==
    \A k \in 1..Len(fed) : (fed[k] = "BITMAP" /\ BitmapOpenAt(k)) => Rejected(k)

\* the top-level records that may not begin inside a properties block
TopLevelRecords == {"FONT", "SIZE", "FONTBOUNDINGBOX", "CHARS", "STARTCHAR", "STARTFONT",
                    "ENDFONT"}

\* C8 as stated: a top-level record read while a properties block is open is
\* rejected, so no glyph is opened inside the block; STARTPROPERTIES read
\* while a block is open or was declared, and ENDPROPERTIES read with no block
\* open, are rejected (all outside a glyph).
C8_BlockClosedFirst ==
    \A k \in 1..Len(fed) :
        ~GlyphOpenAt(k) =>
            /\ (Command(fed[k]) \in TopLevelRecords /\ BlockOpenAt(k)) => Rejected(k)
            /\ (Command(fed[k]) = "STARTPROPERTIES" /\ BlockDeclaredAt(k)) => Rejected(k)
            /\ (fed[k] = "ENDPROPERTIES" /\ ~BlockOpenAt(k)) => Rejected(k)

\* the parser of a parser run, before and after a step
Font == parser[1]
FontAfter == parser'[1]

\* field (None or set) is declared by a line with argument v: a first
\* declaration sets it to v, a second is an error and leaves it as it is
DeclaredOnce(before, after, v) ==
    IF before = None THEN after = Some(v) /\ exc' = ""
    ELSE after = before /\ exc' # "" /\ pc' = "abort"

\* C9: when a line is read at top level, STARTFONT, FONT, SIZE and
\* FONTBOUNDINGBOX each set their field if it is unset and are otherwise a fatal
\* error that leaves the field at its first value; COMMENT is never an error
\* and appends its text to the comments; and no step changes a field that is
\* set, or the comments already kept.
C9_SingletonHeaderFields ==
    [][ /\ \A line \in Lines :
              (fed' = Append(fed, line) /\ Font.glyph = None) =>
                  /\ Command(line) = "STARTFONT" =>
                         DeclaredOnce(Font.version, FontAfter.version, Argument(line))
                  /\ Command(line) = "FONT" =>
                         DeclaredOnce(Font.name, FontAfter.name, Argument(line))
                  /\ Command(line) = "SIZE" =>
                         DeclaredOnce(Font.size, FontAfter.size, Argument(line))
                  /\ Command(line) = "FONTBOUNDINGBOX" =>
                         DeclaredOnce(Font.bbx, FontAfter.bbx, Split(Argument(line)))
                  /\ Command(line) = "COMMENT" =>
                         /\ exc' = ""
                         /\ FontAfter.comments = Append(Font.comments, Argument(line))
        /\ Font.version # None => FontAfter.version = Font.version
        /\ Font.name # None => FontAfter.name = Font.name
        /\ Font.size # None => FontAfter.size = Font.size
        /\ Font.bbx # None => FontAfter.bbx = Font.bbx
        /\ Len(FontAfter.comments) >= Len(Font.comments)
        /\ SubSeq(FontAfter.comments, 1, Len(Font.comments)) = Font.comments ]_vars

\* C9 witness: FONT a, COMMENT b, COMMENT a, FONT b were read: the run ended
\* on the second FONT, the name is still a, and the comments are b, a
C9_Witness ==
    /\ fed = <<"FONT a", "COMMENT b", "COMMENT a", "FONT b">>
    /\ pc = "abort" /\ exc = "AssertionError"
    /\ Font.name = Some("a")
    /\ Font.comments = <<"b", "a">>

-----------------------------------------------------------------------------
(* Widening a row, as the specification states it.                         *)

\* bit k of n
Bit(n, k) == (n \div (2 ^ k)) % 2

\* a nibble widened: bit 3 to bits 7-6, bit 2 to bits 5-4, bit 1 to bits
\* 3-2, bit 0 to bits 1-0
Widened(n) == 192 * Bit(n, 3) + 48 * Bit(n, 2) + 12 * Bit(n, 1) + 3 * Bit(n, 0)

RECURSIVE WidenedRow(_)
\* two bytes per byte of the row: its high nibble widened, then its low nibble
WidenedRow(bs) ==
    IF bs = <<>> THEN <<>>
    ELSE <<Widened(Head(bs) \div 16), Widened(Head(bs) % 16)>> \o WidenedRow(Tail(bs))

\* C10 as stated: expand_bits returns, for every byte of the row, the widened
\* high nibble followed by the widened low nibble.
C10_ExpandHighThenLow == pc = "expanded" => res = WidenedRow(bits)

-----------------------------------------------------------------------------
(* Narrowing a row, as the specification states it.                        *)

\* the logical OR of two bits
Or(a, b) == IF a + b > 0 THEN 1 ELSE 0

\* a byte narrowed to a nibble: each bit is the OR of a bit pair
Narrowed(n) ==
    8 * Or(Bit(n, 7), Bit(n, 6)) + 4 * Or(Bit(n, 5), Bit(n, 4))
    + 2 * Or(Bit(n, 3), Bit(n, 2)) + Or(Bit(n, 1), Bit(n, 0))

\* byte k (from 0) of the narrowed row: bytes 2k and 2k+1 of the row packed
\* high nibble first, the low nibble zero when there is no byte 2k+1
NarrowedAt(bs, k) ==
    16 * Narrowed(bs[2 * k + 1])
    + (IF 2 * k + 2 <= Len(bs) THEN Narrowed(bs[2 * k + 2]) ELSE 0)

\* C11: shrink_bits of a row of n bytes returns ceil(n/2) bytes, byte k being
\* the narrowed bytes 2k and 2k+1 of the row packed high nibble first, with a
\* zero low nibble in the last byte when n is odd.
C11_ShrinkPacksPairs ==
    pc = "shrunk" =>
        /\ Len(res) = (Len(bits) + 1) \div 2
        /\ \A k \in 0..(Len(res) - 1) : res[k + 1] = NarrowedAt(bits, k)

\* C11 witness: a row of one byte 0x5A was narrowed to the one byte 0xF0
C11_Witness == pc = "shrunk" /\ bits = <<90>> /\ res = <<240>>

-----------------------------------------------------------------------------
(* The transcoder, as the specification states it.                         *)

\* this step is a call adjust(glyph, wide) of a transcoder run
AdjustCall(wide) ==
    pc \in {"parsed", "adjusted"} /\ ki' = ki + 1 /\ target' = Some(wide)

\* the glyph of a transcoder run, before and after a step
Glyph == glyph[1]
GlyphAfter == glyph'[1]

\* C12 as stated: a call adjust(glyph, target_wide) with glyph.wide equal to
\* target_wide leaves swidth, dwidth, bbx, the bitmap rows, the wide flag and
\* the changed flag as they were.
C12_AdjustNoOp ==
    [][ \A wide \in BOOLEAN :
            (AdjustCall(wide) /\ Glyph.wide = wide) =>
                /\ GlyphAfter.swidth = Glyph.swidth
                /\ GlyphAfter.dwidth = Glyph.dwidth
                /\ GlyphAfter.bbx = Glyph.bbx
                /\ GlyphAfter.bits = Glyph.bits
                /\ GlyphAfter.wide = Glyph.wide
                /\ GlyphAfter.changed = Glyph.changed ]_vars

\* the glyph of a transcoder run as it was parsed from the lines fed
Original == FeedLines(NewParser, fed).o.glyphs[1]

\* the number of bytes of each row of g
RowBytes(g) == [i \in 1..Len(g.bits) |-> Len(g.bits[i]) \div 2]

\* C13: when adjust(glyph, wide) and then adjust(glyph, narrow) were called
\* on a glyph parsed narrow, every row has as many bytes as it was parsed
\* with, and bbx, swidth.x and dwidth.x have their parsed values.
C13_RoundTripShape ==
    [][ (AdjustCall(FALSE) /\ ki = 1 /\ target = Some(TRUE) /\ ~Original.wide
         /\ pc' = "adjusted") =>
            /\ RowBytes(GlyphAfter) = RowBytes(Original)
            /\ GlyphAfter.bbx = Original.bbx
            /\ GlyphAfter.swidth[1][1] = Original.swidth[1][1]
            /\ GlyphAfter.dwidth[1][1] = Original.dwidth[1][1] ]_vars

\* C13 witness: a narrow glyph of three two-byte rows was widened and then
\* narrowed: its shape is the parsed one, its bits are not
C13_Witness ==
    /\ pc = "adjusted" /\ ki = 2 /\ target = Some(FALSE)
    /\ ~Original.wide /\ Original.bits = <<"A5F0", "0001", "FFFF">>
    /\ Glyph.bbx = Original.bbx /\ RowBytes(Glyph) = <<2, 2, 2>>
    /\ Glyph.bits # Original.bits

-----------------------------------------------------------------------------
(* The glyph records of a file and of the output.                          *)

\* where the glyph records of lines begin
Starts(lines) == {i \in 1..Len(lines) : HasPrefix(lines[i], "STARTCHAR ")}

\* the ENDCHAR line of the record that begins at line i
EndOf(lines, i) ==
    CHOOSE j \in i..Len(lines) :
        lines[j] = "ENDCHAR" /\ \A k \in i..(j - 1) : lines[k] # "ENDCHAR"

\* the index of the first line of b that begins with pre
LineOf(b, pre) ==
    CHOOSE j \in 1..Len(b) :
        HasPrefix(b[j], pre) /\ \A k \in 1..(j - 1) : ~HasPrefix(b[k], pre)

\* the record of lines that begins at line i: its name, its bounding box
\* and its bitmap rows
RecordAt(lines, i) ==
    LET b == SubSeq(lines, i, EndOf(lines, i))
    IN  [name |-> After(b[1], "STARTCHAR "),
         bbx  |-> After(b[LineOf(b, "BBX ")], "BBX "),
         rows |-> SubSeq(b, LineOf(b, "BITMAP") + 1, Len(b) - 1)]

Records(lines) == {RecordAt(lines, i) : i \in Starts(lines)}

\* a finished run over one font, every glyph of it at a code point of its own
\* and of the width its code point requires
SingleFontNoConflict ==
    /\ pc = "done" /\ Len(err) = 1 /\ NoWarning
    /\ \A e \in DOMAIN glyphs : Len(glyphs[e]) = 1

\* C14: a finished run over a single font whose glyphs map to distinct code
\* points and have the widths their code points require writes as many glyph
\* records as the font holds, and the records written have the names,
\* bounding boxes and bitmap rows (same rows, same order, same text) of the
\* records read.
C14_SingleFontPreserved ==
    SingleFontNoConflict =>
        /\ Cardinality(Starts(out)) = Cardinality(Starts(fed))
        /\ Cardinality(Records(out)) = Cardinality(Starts(out))
        /\ Records(out) = Records(fed)

\* C14 witness: such a run over a font of a wide and a narrow glyph, under
\* the published width table
C14_Witness ==
    /\ SingleFontNoConflict /\ CHARWIDTH = EastAsianWidth
    /\ Cardinality(Starts(fed)) = 2
    /\ {r.bbx : r \in Records(out)} = {"2 2 0 -1", "1 2 0 -1"}
    /\ {r.rows : r \in Records(out)} = {<<"C0", "40">>, <<"80", "00">>}

-----------------------------------------------------------------------------
(* The header of the output.                                               *)

\* the index of the last line of lines that begins with pre
LastOf(lines, pre) ==
    CHOOSE i \in 1..Len(lines) :
        HasPrefix(lines[i], pre)
        /\ \A k \in (i + 1)..Len(lines) : ~HasPrefix(lines[k], pre)

\* the lines of the last font of lines
LastFont(lines) == SubSeq(lines, LastOf(lines, "STARTFONT "), Len(lines))

\* the lines of the properties block of the font b
PropsBlock(b) ==
    SubSeq(b, LineOf(b, "STARTPROPERTIES ") + 1, LineOf(b, "ENDPROPERTIES") - 1)

CommentsOf(b) == SelectSeq(b, LAMBDA l : HasPrefix(l, "COMMENT "))

\* the key of a property line, in upper case, and its value
KeyOf(line) == Upper(Partition(line, " ")[1])
ValueOf(line) == Partition(line, " ")[2]

\* a property line as the header is to list it
Forced(line) ==
    IF KeyOf(line) = "CHARSET_REGISTRY" THEN "CHARSET_REGISTRY \"ISO10646\""
    ELSE IF KeyOf(line) = "CHARSET_ENCODING" THEN "CHARSET_ENCODING \"1\""
    ELSE KeyOf(line) \o " " \o ValueOf(line)

\* C15 as stated: once the header is written, its comments are those of the
\* font read last; its properties block lists the properties of that font in
\* the order they were declared, each with its value, but CHARSET_REGISTRY
\* with "ISO10646" and CHARSET_ENCODING with "1"; no CHARSET_REGISTRY or
\* CHARSET_ENCODING line written carries another value; and the
\* STARTPROPERTIES line counts the property lines written.
C15_HeaderOfLastFont ==
    MergeBegun =>
        LET read    == PropsBlock(LastFont(fed))
            written == PropsBlock(out)
        IN  /\ CommentsOf(out) = CommentsOf(LastFont(fed))
            /\ written = [i \in 1..Len(read) |-> Forced(read[i])]
            /\ \A i \in 1..Len(written) :
                   /\ KeyOf(written[i]) = "CHARSET_REGISTRY" =>
                          ValueOf(written[i]) = "\"ISO10646\""
                   /\ KeyOf(written[i]) = "CHARSET_ENCODING" =>
                          ValueOf(written[i]) = "\"1\""
            /\ out[LineOf(out, "STARTPROPERTIES ")]
                   = "STARTPROPERTIES " \o Str(Len(written))

-----------------------------------------------------------------------------
(* Unrecognized lines.                                                     *)

\* the ten top-level commands and the nineteen property names, in lower case
TopLevelCommands ==
    {"startfont", "endfont", "comment", "font", "size", "fontboundingbox",
     "startproperties", "endproperties", "chars", "startchar"}
PropertyNames == IntProps \cup StrProps

\* the line read by this step of a parser run
LineRead == fed'[Len(fed')]

\* line is read by this step, with no glyph open
ReadAtTopLevel(line) ==
    pc = "feed" /\ fed' = Append(fed, line) /\ Font.glyph = None /\ ~Font.prop
ReadInBlock(line) ==
    pc = "feed" /\ fed' = Append(fed, line) /\ Font.glyph = None /\ Font.prop

\* the run ends with an error on this step and the parser is as it was
Aborts == pc' = "abort" /\ exc' # "" /\ parser' = parser

\* C16: with no glyph open, a line read outside a properties block whose
\* first token is (in any case) none of the ten top-level commands, and a
\* line read inside an open properties block whose first token is neither
\* one of them nor one of the nineteen property names, ends the parse with
\* an error and leaves the parser as it was.
C16_UnrecognizedFatal ==
    [][ \A line \in Lines :
            /\ (ReadAtTopLevel(line) /\ Lower(Command(line)) \notin TopLevelCommands)
                   => Aborts
            /\ (ReadInBlock(line)
                    /\ Lower(Command(line)) \notin TopLevelCommands \cup PropertyNames)
                   => Aborts ]_vars

\* C16 witness: an unknown property was read inside a properties block after
\* a known one, and a property name, an empty line, ENDCHAR and UNKNOWN are
\* among the lines a file is made of
C16_Witness ==
    /\ pc = "abort" /\ exc = "ValueError"
    /\ fed = <<"STARTPROPERTIES 1", "FOUNDRY \"a\"", "X_HEIGHT 1">>
    /\ Font.prop /\ Len(Font.props[1]) = 1
    /\ {"FONT_ASCENT 1", "", "ENDCHAR", "UNKNOWN x"} \subseteq Lines
    /\ Cardinality(TopLevelCommands) = 10 /\ Cardinality(PropertyNames) = 19

-----------------------------------------------------------------------------
(* The property list.                                                      *)

\* the keys of the property list of the font, in the order of the list
KeysOf(p) == IF p.props = None THEN <<>>
             ELSE [i \in 1..Len(p.props[1]) |-> Lower(p.props[1][i][1])]

\* C17 as stated: the property list of the font never holds two entries with
\* the same key (compared ignoring case): a property line whose key is
\* already in the list is rejected and leaves the list as it is.
C17_PropertyDeclaredOnce ==
    /\ \A i, j \in 1..Len(KeysOf(Font)) : i # j => KeysOf(Font)[i] # KeysOf(Font)[j]
    /\ \A k \in 1..Len(fed) :
           (\E i \in 1..(k - 1) :
                /\ fed[i] = fed[k] /\ Lower(Command(fed[k])) \in PropertyNames
                /\ BlockOpenAt(i) /\ ~GlyphOpenAt(i)
                /\ \A j \in i..k : ~GlyphOpenAt(j) /\ fed[j] # "ENDPROPERTIES")
               => Rejected(k)

-----------------------------------------------------------------------------
(* Bitmap rows and ENDCHAR.                                                *)

\* line is read by this step while a glyph is open and its BITMAP line was read
ReadInBitmap(line) ==
    /\ pc = "feed" /\ fed' = Append(fed, line)
    /\ Font.glyph # None /\ Font.glyph[1].bitmap

\* the open glyph with line appended to its rows
WithRow(line) == [Font.glyph[1] EXCEPT !.bits = Append(@, line)]

\* the open glyph as ENDCHAR leaves it in the glyph sequence
Closed == [Font.glyph[1] EXCEPT !.bitmap = FALSE]

\* the step appended the open glyph to the glyph sequence, closed it and
\* changed no other field of the font
GlyphAppended ==
    /\ exc' = ""
    /\ FontAfter = [Font EXCEPT !.glyphs = Append(@, Closed), !.glyph = None]

\* the parser is at top level: no glyph and no properties block is open
AtTopLevel(p) == p.glyph = None /\ ~p.prop

\* C18 as stated: once the BITMAP line of an open glyph was read, a line that
\* is not ENDCHAR (in any case) is appended to the rows of the glyph, raises
\* nothing and changes nothing else of the glyph or the font; ENDCHAR appends
\* the glyph to the end of the glyph sequence, once, changes nothing else and
\* leaves the parser at top level.
C18_RowsUntilEndchar ==
    [][ \A line \in Lines :
            ReadInBitmap(line) =>
                IF Lower(line) # "endchar"
                THEN exc' = "" /\ FontAfter = [Font EXCEPT !.glyph = Some(WithRow(line))]
                ELSE GlyphAppended /\ AtTopLevel(FontAfter) ]_vars

-----------------------------------------------------------------------------
(* What a transcoder call changes.                                         *)

\* half of x, rounded toward zero, and rounded down as Python's // rounds
HalfTruncated(x) == IF x >= 0 THEN x \div 2 ELSE -((-x) \div 2)
HalfFloored(x) == x \div 2

\* the first element of a field of the glyph before and after the step is
\* scaled by Half when narrowing and doubled when widening
Scaled(before, after, narrow, Half(_)) ==
    after[1][1] = IF narrow THEN Half(before[1][1]) ELSE 2 * before[1][1]

\* the step changed no element of the fields but the first of each, nor the
\* name, the encoding or the number of rows
ExtentOnly ==
    /\ \A f \in {Glyph.swidth, Glyph.dwidth, Glyph.bbx} : f # None => Len(f[1]) >= 2
    /\ Glyph.swidth # None =>
           Tail(GlyphAfter.swidth[1]) = Tail(Glyph.swidth[1])
    /\ Glyph.dwidth # None =>
           Tail(GlyphAfter.dwidth[1]) = Tail(Glyph.dwidth[1])
    /\ Glyph.bbx # None =>
           Tail(GlyphAfter.bbx[1]) = Tail(Glyph.bbx[1])
    /\ GlyphAfter.name = Glyph.name /\ GlyphAfter.encoding = Glyph.encoding
    /\ Len(GlyphAfter.bits) = Len(Glyph.bits)

\* a call adjust(wide) on a glyph of the other width, with halves taken by Half
Transcodes(Half(_)) ==
    \A wide \in BOOLEAN :
        AdjustCall(wide) =>
            /\ ExtentOnly
            /\ (Glyph.wide # wide /\ pc' = "adjusted") =>
                   /\ Scaled(Glyph.swidth, GlyphAfter.swidth, Glyph.wide, Half)
                   /\ Scaled(Glyph.dwidth, GlyphAfter.dwidth, Glyph.wide, Half)
                   /\ Scaled(Glyph.bbx, GlyphAfter.bbx, Glyph.wide, Half)

\* C19 as stated: a call of adjust that transcodes replaces SWIDTH.x, DWIDTH.x
\* and BBX.width by their halves rounded toward zero when narrowing and by
\* their doubles when widening, and leaves SWIDTH.y, DWIDTH.y, BBX.height, the
\* BBX origins, the name, the encoding and the number of rows as they were.
C19_HalvesTruncated == [][Transcodes(HalfTruncated)]_vars

\* C19: the same, with the halves rounded down (toward minus infinity), which
\* is the half rounded toward zero for every value that is not negative.
C19_HalvesFloored == [][Transcodes(HalfFloored)]_vars

\* C19 witness: a wide 3x3 glyph of SWIDTH -1001 was narrowed: its SWIDTH.x is
\* -501, its DWIDTH.x and BBX.width are 1
C19_Witness ==
    /\ pc = "adjusted" /\ ki = 1 /\ target = Some(FALSE)
    /\ Original.wide /\ Original.swidth = Some(<<-1001, 0>>)
    /\ Original.bbx = Some(<<3, 3, 0, -1>>)
    /\ Glyph.swidth = Some(<<-501, 0>>) /\ Glyph.dwidth = Some(<<1, 0>>)
    /\ Glyph.bbx = Some(<<1, 3, 0, -1>>)

-----------------------------------------------------------------------------
(* The glyph a merge step writes.                                          *)

\* the lines this step wrote to the output and to the error stream
Written == SubSeq(out', Len(out) + 1, Len(out'))
Warned == SubSeq(err', Len(err) + 1, Len(err'))

\* this step wrote a width warning for code point e
WarnedFor(e) ==
    \E i \in 1..Len(Warned) :
        HasPrefix(Warned[i], "warning: invalid width: U+" \o ZeroPad(HexStr(e), 4) \o " ")

\* the candidate of code point e whose record this step wrote, as it is
\* after the step
WrittenGlyph(e) ==
    glyphs'[e][CHOOSE i \in 1..Len(glyphs'[e]) :
                   glyphs'[e][i].name = After(Written[1], "STARTCHAR ")]

\* C20: the glyph a merge step writes for a code point classified F, W, H,
\* Na or A has the wide flag its category requires (set for F and W, clear for
\* H, Na and A), whether the step matched it or transcoded it; and the glyph
\* a merge step writes has its changed flag set if and only if the step wrote
\* a width warning for its code point.
C20_WrittenWidth ==
    [][ (Merging /\ Written # <<>>) =>
            /\ Written[2] = "ENCODING " \o Str(NextCode)
            /\ Required(NextWid) # "" =>
                   (WrittenGlyph(NextCode).wide <=> Required(NextWid) = "wide")
            /\ WrittenGlyph(NextCode).changed <=> WarnedFor(NextCode) ]_vars

\* C20 witness: a finished run over two code points that require wide glyphs:
\* at one the glyph was wide and was written unchanged, at the other it was
\* narrow, a warning was written and the glyph was written wide and changed
C20_Witness ==
    /\ pc = "done"
    /\ Cardinality({i \in 1..Len(err) : HasPrefix(err[i], "warning")}) = 1
    /\ \E e1, e2 \in DOMAIN glyphs :
          /\ Required(WidthOf(CHARWIDTH, e1)) = "wide"
          /\ Required(WidthOf(CHARWIDTH, e2)) = "wide"
          /\ Len(glyphs[e1]) = 1 /\ Len(glyphs[e2]) = 1
          /\ glyphs[e1][1].wide /\ ~glyphs[e1][1].changed
          /\ glyphs[e2][1].wide /\ glyphs[e2][1].changed
          /\ glyphs[e2][1].bbx = Some(<<2, 2, 0, -1>>)
====
